---- MODULE Spec2Model ----
(***************************************************************************)
(* A model of music21/analysis/reduceChords.py (class ChordReducer).       *)
(*                                                                         *)
(* Five specifications share this module:                                  *)
(*   Spec        the pass pipeline of ChordReducer.__call__ over an offset *)
(*               tree (one action per pass, then the two projections);     *)
(*   SpecBass    fillBassGaps called on a tree of its own;                 *)
(*   SpecShort   removeShortTimespans called on a tree of its own;         *)
(*   SpecSteps   the four passes that insert, run statement by statement   *)
(*               (one action per call of tree.remove and tree.insert);     *)
(*   SpecReduce  ChordReducer.reduceMeasureToNChords over one measure.     *)
(*                                                                         *)
(* Time is counted in ticks of a quarter of a quarter length (0.25 ql), so *)
(* that the 0.5 ql threshold of removeShortTimespans and the 0.25 ql       *)
(* syncopation offset of reduceMeasureToNChords are whole numbers.         *)
(*                                                                         *)
(* The offset tree itself (music21.analysis.offsetTree) is not part of the *)
(* source at hand; its operations are modelled from section 4.1 of the     *)
(* specification.  The same holds for the Stream a measure is handed in    *)
(* as: notes, duration and iteration follow section 4.3.                   *)
(***************************************************************************)
EXTENDS Integers, Sequences, FiniteSets, TLC

VARIABLES
    tree,                 \* the offset tree: a set of timespans
    bassTie,              \* which of several lowest timespans is the bass
    pc,                   \* number of passes of __call__ that have completed
    history,              \* names of the passes run so far, in order
    partwiseReduction,    \* tree.toPartwiseScore(), once taken
    chordifiedReduction,  \* tree.toChordifiedScore(), once taken
    measureObject,        \* reduceMeasureToNChords: the measure handed in
    numChords,            \* reduceMeasureToNChords: numChords
    weightAlgorithm,      \* reduceMeasureToNChords: weightAlgorithm
    trimBelow,            \* reduceMeasureToNChords: trimBelow, in percent
    tableOrder,           \* iteration order of the chordWeights dict
    result,               \* reduceMeasureToNChords: what the call produced
    rpc,                  \* reduceMeasureToNChords: "start" or "done"
    frame                 \* a pass run statement by statement: its locals

pipelineVars == <<tree, bassTie, pc, history, partwiseReduction, chordifiedReduction, frame>>
reduceVars == <<measureObject, numChords, weightAlgorithm, trimBelow,
                tableOrder, result, rpc>>
vars == <<tree, bassTie, pc, history, partwiseReduction, chordifiedReduction,
          measureObject, numChords, weightAlgorithm, trimBelow,
          tableOrder, result, rpc, frame>>

(***************************************************************************)
(* Bounds of the pipeline model.                                           *)
(***************************************************************************)
MaxSpans == 3                 \* timespans in the input tree
Parts == {1, 2}
Pitches == {1, 2, 3}
\* the score's measures: two measures of three ticks each
Measures == {[start |-> 0, stop |-> 3], [start |-> 3, stop |-> 6]}
MeasureStarts == {m.start : m \in Measures}

\* removeShortTimespans(tree, duration=0.5): 0.5 ql is two ticks
ShortDuration == 2
\* timespans in the tree of a pass run statement by statement
MaxStepSpans == 3

(***************************************************************************)
(* Timespans.  A timespan owns one note: pitches is the note's pitch.      *)
(***************************************************************************)
None == [part |-> 0, startOffset |-> 0 - 1, stopOffset |-> 0 - 1,
         pitches |-> 0, beatStrength |-> 0]

SetMin(S) == CHOOSE x \in S : \A y \in S : x <= y
SetMax(S) == CHOOSE x \in S : \A y \in S : y <= x

\* the measure containing an offset, named by the offset at which it starts
measureStartOffsetOf(o) == SetMax({m \in MeasureStarts : m <= o})
measureStopOffsetOf(o) ==
    (CHOOSE m \in Measures : m.start = measureStartOffsetOf(o)).stop
measureNumber(ts) == measureStartOffsetOf(ts.startOffset)
measureStartOffset(ts) == measureStartOffsetOf(ts.startOffset)
measureStopOffset(ts) == measureStopOffsetOf(ts.startOffset)
tsDuration(ts) == ts.stopOffset - ts.startOffset

\* metrical weight of an offset, in sixteenths: 16 on the downbeat
beatStrengthAt(o) == IF o \in MeasureStarts THEN 16 ELSE 4

\* the pitch capability: is this set of pitches consonant
pitchesAreConsonant(S) == ~({1, 3} \subseteq S)

\* the order in which the tree hands out timespans
TsLess(a, b) ==
    \/ a.startOffset < b.startOffset
    \/ /\ a.startOffset = b.startOffset
       /\ \/ a.stopOffset < b.stopOffset
          \/ /\ a.stopOffset = b.stopOffset
             /\ \/ a.part < b.part
                \/ /\ a.part = b.part
                   /\ \/ a.pitches < b.pitches
                      \/ /\ a.pitches = b.pitches
                         /\ a.beatStrength < b.beatStrength

RECURSIVE SortTs(_)
SortTs(S) ==
    IF S = {} THEN <<>>
    ELSE LET m == CHOOSE x \in S : \A y \in S \ {x} : TsLess(x, y)
         IN <<m>> \o SortTs(S \ {m})

Range(s) == {s[i] : i \in 1..Len(s)}

(***************************************************************************)
(* The offset tree (specification, section 4.1).                           *)
(***************************************************************************)
\* what an insertion of an interval without positive length leaves behind:
\* the index is unusable from then on, and no removal repairs it
Misuse == [part |-> 0, startOffset |-> 0, stopOffset |-> 0,
           pitches |-> 0, beatStrength |-> 0]

insert(t, ts) ==
    IF ts.startOffset < ts.stopOffset THEN t \cup {ts}
    ELSE t \cup {ts, Misuse}
remove(t, ts) == t \ {ts}
removeAll(t, S) == t \ S

getVerticalityAt(t, o) ==
    [startOffset |-> o,
     startTimespans |-> SortTs({ts \in t : ts.startOffset = o}),
     overlapTimespans |->
         SortTs({ts \in t : ts.startOffset < o /\ o < ts.stopOffset})]

vTimespans(v) == Range(v.startTimespans) \cup Range(v.overlapTimespans)
pitchSet(v) == {ts.pitches : ts \in vTimespans(v)}
isConsonant(v) == pitchesAreConsonant(pitchSet(v))
vMeasureNumber(v) == measureStartOffsetOf(v.startOffset)

\* the timespan owning the lowest pitch.  Several timespans may own it; the
\* scan runs over the starting timespans, then the overlapping ones, and
\* bassTie says whether the first or the last of them is kept.
bassTimespan(v) ==
    LET scan == v.startTimespans \o v.overlapTimespans
        low == SetMin(pitchSet(v))
        lowest == SelectSeq(scan, LAMBDA ts : ts.pitches = low)
    IN IF scan = <<>> THEN None
       ELSE IF bassTie = "first" THEN lowest[1]
       ELSE lowest[Len(lowest)]

vBeatStrength(v) ==
    IF v.startTimespans # <<>> THEN v.startTimespans[1].beatStrength
    ELSE IF v.overlapTimespans # <<>> THEN v.overlapTimespans[1].beatStrength
    ELSE 0

\* the next offset at which a timespan starts, or -1
getStartOffsetAfter(t, o) ==
    LET later == {ts.startOffset : ts \in {x \in t : x.startOffset > o}}
    IN IF later = {} THEN 0 - 1 ELSE SetMin(later)

earliestStartOffset(t) == SetMin({ts.startOffset : ts \in t})

findNextParentageInSamePart(t, p) ==
    LET later == {ts \in t : ts.part = p.part /\ ts.startOffset > p.startOffset}
    IN IF later = {} THEN None
       ELSE LET o == SetMin({ts.startOffset : ts \in later})
            IN SortTs({ts \in later : ts.startOffset = o})[1]

findPreviousParentageInSamePart(t, p) ==
    LET earlier == {ts \in t : ts.part = p.part /\ ts.startOffset < p.startOffset}
    IN IF earlier = {} THEN None
       ELSE LET o == SetMax({ts.startOffset : ts \in earlier})
            IN SortTs({ts \in earlier : ts.startOffset = o})[1]

\* toPartwiseOffsetTrees()[part], as the list the passes iterate
partSubtree(t, part) == SortTs({ts \in t : ts.part = part})

(***************************************************************************)
(* removeVerticalDissonances                                               *)
(***************************************************************************)
RECURSIVE rvdFrom(_, _)
rvdFrom(t, o) ==
    LET v == getVerticalityAt(t, o)
        lowestPitch == SetMin(pitchSet(v))
        t2 == IF isConsonant(v) THEN t
              ELSE removeAll(t, {ts \in Range(v.startTimespans) :
                                    ts.pitches # lowestPitch})
        nxt == getStartOffsetAfter(t2, o)
    IN IF nxt < 0 THEN t2 ELSE rvdFrom(t2, nxt)

removeVerticalDissonances(t) ==
    IF t = {} THEN t ELSE rvdFrom(t, earliestStartOffset(t))

(***************************************************************************)
(* fillBassGaps.  itertools.groupby evaluates procedure() lazily: the key  *)
(* of the first timespan of a group is computed before the group before it *)
(* is processed, the keys of the others after.                             *)
(***************************************************************************)
fbgProcedure(t, timespan) ==
    bassTimespan(getVerticalityAt(t, timespan.startOffset))

RECURSIVE fbgGroupEnd(_, _, _, _)
fbgGroupEnd(t, timespans, key, j) ==
    IF j > Len(timespans) THEN j
    ELSE IF fbgProcedure(t, timespans[j]) = key
         THEN fbgGroupEnd(t, timespans, key, j + 1)
         ELSE j

\* len(group) == 1
fbgSingleToBassStart(t, timespan, bass) ==
    LET early == bass.startOffset < timespan.startOffset
        late == timespan.stopOffset < bass.stopOffset
        newTimespan ==
            [timespan EXCEPT
                !.beatStrength = IF early THEN bass.beatStrength ELSE @,
                !.startOffset = IF early THEN bass.startOffset ELSE @,
                !.stopOffset = IF late THEN bass.startOffset ELSE @]
    IN IF early \/ late THEN insert(remove(t, timespan), newTimespan) ELSE t

fbgSingle(t, timespan, bass) ==
    LET early == bass.startOffset < timespan.startOffset
        late == timespan.stopOffset < bass.stopOffset
        newTimespan ==
            [timespan EXCEPT
                !.beatStrength = IF early THEN bass.beatStrength ELSE @,
                !.startOffset = IF early THEN bass.startOffset ELSE @,
                !.stopOffset = IF late THEN bass.stopOffset ELSE @]
    IN IF early \/ late THEN insert(remove(t, timespan), newTimespan) ELSE t

\* len(group) > 1: stretch the first and the last timespan to the bass
fbgStretch(t, group, bass) ==
    LET n == Len(group)
        first == [group[1] EXCEPT !.beatStrength = bass.beatStrength,
                                  !.startOffset = bass.startOffset]
        s1 == IF bass.startOffset < group[1].startOffset
              THEN [tree |-> insert(remove(t, group[1]), first),
                    group |-> [group EXCEPT ![1] = first]]
              ELSE [tree |-> t, group |-> group]
        last == [s1.group[n] EXCEPT !.stopOffset = bass.stopOffset]
    IN IF s1.group[n].stopOffset < bass.stopOffset
       THEN [tree |-> insert(remove(s1.tree, s1.group[n]), last),
             group |-> [s1.group EXCEPT ![n] = last]]
       ELSE s1

\* for i in range(len(group) - 1): merge group[i] with group[i + 1]
RECURSIVE fbgMerge(_, _, _)
fbgMerge(t, group, i) ==
    IF i > Len(group) - 1 THEN t
    ELSE LET timespanOne == group[i]
             timespanTwo == group[i + 1]
             newTimespan ==
                 [timespanOne EXCEPT !.stopOffset = timespanTwo.stopOffset]
         IN IF \/ timespanOne.pitches = timespanTwo.pitches
               \/ timespanOne.stopOffset # timespanTwo.startOffset
            THEN fbgMerge(
                    insert(removeAll(t, {timespanOne, timespanTwo}), newTimespan),
                    [group EXCEPT ![i] = newTimespan, ![i + 1] = newTimespan],
                    i + 1)
            ELSE fbgMerge(t, group, i + 1)

fbgGroup(t, group, bass) ==
    IF Len(group) = 1 THEN fbgSingle(t, group[1], bass)
    ELSE LET s == fbgStretch(t, group, bass)
         IN fbgMerge(s.tree, s.group, 1)

RECURSIVE fbgGroups(_, _, _, _)
fbgGroups(t, timespans, i, key) ==
    IF i > Len(timespans) THEN t
    ELSE LET j == fbgGroupEnd(t, timespans, key, i + 1)
             nextKey == IF j > Len(timespans) THEN None
                        ELSE fbgProcedure(t, timespans[j])
         IN fbgGroups(fbgGroup(t, SubSeq(timespans, i, j - 1), key),
                      timespans, j, nextKey)

\* subtrees: toPartwiseOffsetTrees(), taken before the loop; partOrder: the
\* order in which iteritems() hands out the parts
RECURSIVE fbgParts(_, _, _, _)
fbgParts(t, subtrees, partOrder, k) ==
    IF k > Len(partOrder) THEN t
    ELSE LET timespans == subtrees[partOrder[k]]
             t2 == IF timespans = <<>> THEN t
                   ELSE fbgGroups(t, timespans, 1, fbgProcedure(t, timespans[1]))
         IN fbgParts(t2, subtrees, partOrder, k + 1)

fillBassGaps(t, partOrder) ==
    fbgParts(t, [p \in Parts |-> partSubtree(t, p)], partOrder, 1)

(***************************************************************************)
(* removeShortTimespans.  The local name duration is both the threshold    *)
(* read by procedure() and the target of                                   *)
(*     bestPitches, duration = counter.most_common()[0]                    *)
(* so the threshold is part of the loop's state.  pref is the order in     *)
(* which the Counter hands out its keys (it decides most_common's ties).   *)
(***************************************************************************)
rstProcedure(t, duration, timespan) ==
    LET bass == bassTimespan(getVerticalityAt(t, timespan.startOffset))
    IN <<measureNumber(timespan),
         tsDuration(timespan) < duration,
         IF bass # None /\ tsDuration(bass) < duration THEN None ELSE bass>>

RECURSIVE rstGroupEnd(_, _, _, _, _)
rstGroupEnd(t, duration, timespans, key, j) ==
    IF j > Len(timespans) THEN j
    ELSE IF rstProcedure(t, duration, timespans[j]) = key
         THEN rstGroupEnd(t, duration, timespans, key, j + 1)
         ELSE j

RECURSIVE rstCount(_, _, _)
rstCount(group, pitches, i) ==
    IF i > Len(group) THEN 0
    ELSE (IF group[i].pitches = pitches THEN tsDuration(group[i]) ELSE 0)
         + rstCount(group, pitches, i + 1)

\* counter.most_common()[0]
rstMostCommon(group, pref) ==
    LET present == {ts.pitches : ts \in Range(group)}
        best == SetMax({rstCount(group, q, 1) : q \in present})
        first == SetMin({k \in 1..Len(pref) :
                           pref[k] \in present
                           /\ rstCount(group, pref[k], 1) = best})
    IN [bestPitches |-> pref[first], duration |-> best]

rstIsEntireMeasure(group, bass) ==
    \/ /\ group[1].startOffset = measureStartOffset(group[1])
       /\ group[Len(group)].stopOffset = measureStopOffset(group[1])
    \/ /\ bass # None
       /\ group[1].startOffset = bass.startOffset
       /\ group[Len(group)].stopOffset = bass.stopOffset

\* one group of the groupby; s = [duration, timespansToRemove]
rstGroup(s, group, key, pref) ==
    IF ~key[2] THEN s
    ELSE IF rstIsEntireMeasure(group, key[3])
    THEN LET mc == rstMostCommon(group, pref)
         IN [duration |-> mc.duration,
             timespansToRemove |->
                 s.timespansToRemove
                 \cup {ts \in Range(group) : ts.pitches # mc.bestPitches}]
    ELSE [s EXCEPT !.timespansToRemove = @ \cup Range(group)]

RECURSIVE rstGroups(_, _, _, _, _, _)
rstGroups(t, s, timespans, i, key, pref) ==
    IF i > Len(timespans) THEN s
    ELSE LET j == rstGroupEnd(t, s.duration, timespans, key, i + 1)
             nextKey == IF j > Len(timespans) THEN key
                        ELSE rstProcedure(t, s.duration, timespans[j])
         IN rstGroups(t, rstGroup(s, SubSeq(timespans, i, j - 1), key, pref),
                      timespans, j, nextKey, pref)

RECURSIVE rstParts(_, _, _, _, _)
rstParts(t, s, partOrder, k, pref) ==
    IF k > Len(partOrder) THEN s
    ELSE LET timespans == partSubtree(t, partOrder[k])
             s2 == IF timespans = <<>> THEN s
                   ELSE rstGroups(t, s, timespans, 1,
                                  rstProcedure(t, s.duration, timespans[1]),
                                  pref)
         IN rstParts(t, s2, partOrder, k + 1, pref)

removeShortTimespans(t, duration, partOrder, pref) ==
    removeAll(t,
        rstParts(t, [duration |-> duration, timespansToRemove |-> {}],
                 partOrder, 1, pref).timespansToRemove)

(***************************************************************************)
(* fillOuterMeasureGaps                                                    *)
(***************************************************************************)
fomgParentage(t, parentage) ==
    LET previousParentage == findPreviousParentageInSamePart(t, parentage)
        nextParentage == findNextParentageInSamePart(t, parentage)
        atStart == /\ \/ previousParentage = None
                      \/ measureNumber(previousParentage) # measureNumber(parentage)
                   /\ parentage.startOffset # measureStartOffset(parentage)
        atStop == /\ \/ nextParentage = None
                     \/ measureNumber(nextParentage) # measureNumber(parentage)
                  /\ parentage.stopOffset # measureStopOffset(parentage)
        startVerticality == getVerticalityAt(t, measureStartOffset(parentage))
        newParentage ==
            [parentage EXCEPT
                !.beatStrength =
                    IF atStart THEN vBeatStrength(startVerticality) ELSE @,
                !.startOffset =
                    IF atStart THEN measureStartOffset(parentage) ELSE @,
                !.stopOffset =
                    IF atStop THEN measureStopOffset(parentage) ELSE @]
    IN IF atStart \/ atStop THEN insert(remove(t, parentage), newParentage)
       ELSE t

RECURSIVE fomgTimespans(_, _, _)
fomgTimespans(t, timespans, i) ==
    IF i > Len(timespans) THEN t
    ELSE fomgTimespans(fomgParentage(t, timespans[i]), timespans, i + 1)

RECURSIVE fomgFrom(_, _)
fomgFrom(t, o) ==
    LET t2 == fomgTimespans(t, getVerticalityAt(t, o).startTimespans, 1)
        nxt == getStartOffsetAfter(t2, o)
    IN IF nxt < 0 THEN t2 ELSE fomgFrom(t2, nxt)

fillOuterMeasureGaps(t) ==
    IF t = {} THEN t ELSE fomgFrom(t, earliestStartOffset(t))

(***************************************************************************)
(* alignHockets, over iterateVerticalitiesNwise(n=2)                       *)
(***************************************************************************)
\* pitchSetOne.issubset(pitchSetTwo): pull verticalityTwo's timespans back
RECURSIVE ahPull(_, _, _, _)
ahPull(t, timespans, i, verticalityOne) ==
    IF i > Len(timespans) THEN t
    ELSE LET newTimespan ==
                 [timespans[i] EXCEPT
                     !.beatStrength = vBeatStrength(verticalityOne),
                     !.startOffset = verticalityOne.startOffset]
         IN ahPull(insert(remove(t, timespans[i]), newTimespan),
                   timespans, i + 1, verticalityOne)

\* pitchSetTwo.issubset(pitchSetOne): stretch verticalityOne's timespans
RECURSIVE ahStretch(_, _, _, _)
ahStretch(t, timespans, i, verticalityTwo) ==
    IF i > Len(timespans) THEN t
    ELSE LET newTimespan ==
                 [timespans[i] EXCEPT !.stopOffset = verticalityTwo.startOffset]
             t2 == IF timespans[i].stopOffset < verticalityTwo.startOffset
                   THEN insert(remove(t, timespans[i]), newTimespan)
                   ELSE t
         IN ahStretch(t2, timespans, i + 1, verticalityTwo)

ahWindow(t, verticalityOne, verticalityTwo) ==
    LET pitchSetOne == pitchSet(verticalityOne)
        pitchSetTwo == pitchSet(verticalityTwo)
    IN IF ~isConsonant(verticalityOne) \/ ~isConsonant(verticalityTwo) THEN t
       ELSE IF vMeasureNumber(verticalityOne) # vMeasureNumber(verticalityTwo)
       THEN t
       ELSE IF pitchSetOne = pitchSetTwo THEN t
       ELSE IF pitchSetOne \subseteq pitchSetTwo
       THEN ahPull(t, verticalityTwo.startTimespans, 1, verticalityOne)
       ELSE IF pitchSetTwo \subseteq pitchSetOne
       THEN ahStretch(t, verticalityOne.startTimespans, 1, verticalityTwo)
       ELSE t

RECURSIVE ahFrom(_, _)
ahFrom(t, o) ==
    LET second == getStartOffsetAfter(t, o)
        t2 == IF second < 0 THEN t
              ELSE ahWindow(t, getVerticalityAt(t, o), getVerticalityAt(t, second))
        nxt == getStartOffsetAfter(t2, o)
    IN IF nxt < 0 THEN t2 ELSE ahFrom(t2, nxt)

alignHockets(t) ==
    IF t = {} THEN t ELSE ahFrom(t, earliestStartOffset(t))

(***************************************************************************)
(* fillInnerMeasureGaps                                                    *)
(***************************************************************************)
fimgParentage(t, parentage) ==
    LET nextParentage == findNextParentageInSamePart(t, parentage)
        nextStartOffset == IF nextParentage = None
                           THEN measureStopOffset(parentage)
                           ELSE nextParentage.startOffset
        stretched == [parentage EXCEPT !.stopOffset = nextStartOffset]
        t2 == IF parentage.stopOffset # nextStartOffset
              THEN insert(remove(t, parentage), stretched)
              ELSE t
        previousParentage == findPreviousParentageInSamePart(t2, stretched)
        newParentage ==
            [previousParentage EXCEPT !.stopOffset = stretched.stopOffset]
    IN IF previousParentage = None THEN t2
       ELSE IF measureNumber(previousParentage) # measureNumber(stretched)
       THEN t2
       ELSE IF previousParentage.pitches # stretched.pitches THEN t2
       ELSE insert(remove(remove(t2, stretched), previousParentage),
                   newParentage)

RECURSIVE fimgTimespans(_, _, _)
fimgTimespans(t, timespans, i) ==
    IF i > Len(timespans) THEN t
    ELSE fimgTimespans(fimgParentage(t, timespans[i]), timespans, i + 1)

RECURSIVE fimgFrom(_, _)
fimgFrom(t, o) ==
    LET t2 == fimgTimespans(t, getVerticalityAt(t, o).startTimespans, 1)
        nxt == getStartOffsetAfter(t2, o)
    IN IF nxt < 0 THEN t2 ELSE fimgFrom(t2, nxt)

fillInnerMeasureGaps(t) ==
    IF t = {} THEN t ELSE fimgFrom(t, earliestStartOffset(t))

(***************************************************************************)
(* The four inserting passes, statement by statement.  A frame holds the   *)
(* locals of the pass that is running.  A block is the code from one query *)
(* of the tree (an iteration step, a neighbour or verticality lookup, the  *)
(* key evaluations of groupby) up to the next one: it reads the tree and   *)
(* leaves the script of tree.remove and tree.insert calls that the code    *)
(* makes before it queries the tree again, in the order of the source.     *)
(***************************************************************************)
IdleFrame ==
    [pass |-> "none", label |-> "idle", input |-> {}, partOrder |-> <<>>,
     subtrees |-> [p \in Parts |-> <<>>], k |-> 0, i |-> 0, key |-> None,
     o |-> 0 - 1, todo |-> <<>>, stage |-> "none", parentage |-> None,
     script |-> <<>>, open |-> {}]

\* tree.remove(...) of the timespans S
Rm(S) == [op |-> "remove", old |-> S, new |-> None]
\* tree.insert(ts), ts made by .new() from the timespans S
Ins(S, ts) == [op |-> "insert", old |-> S, new |-> ts]

\* lines 313-319 written insertion first
fbgSingleScriptInsertFirst(timespan, bass) ==
    LET early == bass.startOffset < timespan.startOffset
        late == timespan.stopOffset < bass.stopOffset
        newTimespan ==
            [timespan EXCEPT
                !.beatStrength = IF early THEN bass.beatStrength ELSE @,
                !.startOffset = IF early THEN bass.startOffset ELSE @,
                !.stopOffset = IF late THEN bass.stopOffset ELSE @]
    IN IF early \/ late
       THEN <<Ins({timespan}, newTimespan), Rm({timespan})>>
       ELSE <<>>

\* len(group) == 1, lines 299-320
fbgSingleScript(timespan, bass) ==
    LET early == bass.startOffset < timespan.startOffset
        late == timespan.stopOffset < bass.stopOffset
        newTimespan ==
            [timespan EXCEPT
                !.beatStrength = IF early THEN bass.beatStrength ELSE @,
                !.startOffset = IF early THEN bass.startOffset ELSE @,
                !.stopOffset = IF late THEN bass.stopOffset ELSE @]
    IN IF early \/ late
       THEN <<Rm({timespan}), Ins({timespan}, newTimespan)>>
       ELSE <<>>

\* lines 337-347: tree.remove((timespanOne, timespanTwo)) is one call
RECURSIVE fbgMergeScript(_, _)
fbgMergeScript(group, i) ==
    IF i > Len(group) - 1 THEN <<>>
    ELSE LET timespanOne == group[i]
             timespanTwo == group[i + 1]
             newTimespan ==
                 [timespanOne EXCEPT !.stopOffset = timespanTwo.stopOffset]
         IN IF \/ timespanOne.pitches = timespanTwo.pitches
               \/ timespanOne.stopOffset # timespanTwo.startOffset
            THEN <<Rm({timespanOne, timespanTwo}),
                   Ins({timespanOne, timespanTwo}, newTimespan)>>
                 \o fbgMergeScript(
                        [group EXCEPT ![i] = newTimespan, ![i + 1] = newTimespan],
                        i + 1)
            ELSE fbgMergeScript(group, i + 1)

\* lines 322-347
fbgGroupScript(group, bass) ==
    LET n == Len(group)
        first == [group[1] EXCEPT !.beatStrength = bass.beatStrength,
                                  !.startOffset = bass.startOffset]
        stretchFirst == bass.startOffset < group[1].startOffset
        g1 == IF stretchFirst THEN [group EXCEPT ![1] = first] ELSE group
        last == [g1[n] EXCEPT !.stopOffset = bass.stopOffset]
        stretchLast == g1[n].stopOffset < bass.stopOffset
        g2 == IF stretchLast THEN [g1 EXCEPT ![n] = last] ELSE g1
    IN (IF stretchFirst THEN <<Rm({group[1]}), Ins({group[1]}, first)>>
        ELSE <<>>)
       \o (IF stretchLast THEN <<Rm({g1[n]}), Ins({g1[n]}, last)>> ELSE <<>>)
       \o fbgMergeScript(g2, 1)

\* fillBassGaps: "part" starts the next part's groupby (lines 295-297),
\* "group" takes list(group) and runs the body on it (lines 298-347)
fbgBlock(t, f) ==
    IF f.stage = "part"
    THEN IF f.k > Len(f.partOrder) THEN [f EXCEPT !.label = "done"]
         ELSE LET timespans == f.subtrees[f.partOrder[f.k]]
              IN IF timespans = <<>> THEN [f EXCEPT !.k = @ + 1]
                 ELSE [f EXCEPT !.i = 1,
                                !.key = fbgProcedure(t, timespans[1]),
                                !.stage = "group"]
    ELSE LET timespans == f.subtrees[f.partOrder[f.k]]
             j == fbgGroupEnd(t, timespans, f.key, f.i + 1)
             nextKey == IF j > Len(timespans) THEN None
                        ELSE fbgProcedure(t, timespans[j])
             group == SubSeq(timespans, f.i, j - 1)
             script == IF Len(group) = 1 THEN fbgSingleScript(group[1], f.key)
                       ELSE fbgGroupScript(group, f.key)
         IN IF j > Len(timespans)
            THEN [f EXCEPT !.k = @ + 1, !.stage = "part", !.script = script]
            ELSE [f EXCEPT !.i = j, !.key = nextKey, !.script = script]

\* iterateVerticalities(): the next verticality, or the end of the pass
nextVerticality(t, f) ==
    LET nxt == getStartOffsetAfter(t, f.o)
    IN IF nxt < 0 THEN [f EXCEPT !.label = "done"]
       ELSE [f EXCEPT !.o = nxt,
                      !.todo = getVerticalityAt(t, nxt).startTimespans]

\* fillOuterMeasureGaps: lines 385-386, or lines 387-413 for one parentage
fomgBlock(t, f) ==
    IF f.todo = <<>> THEN nextVerticality(t, f)
    ELSE LET parentage == Head(f.todo)
             previousParentage == findPreviousParentageInSamePart(t, parentage)
             nextParentage == findNextParentageInSamePart(t, parentage)
             atStart ==
                 /\ \/ previousParentage = None
                    \/ measureNumber(previousParentage) # measureNumber(parentage)
                 /\ parentage.startOffset # measureStartOffset(parentage)
             atStop ==
                 /\ \/ nextParentage = None
                    \/ measureNumber(nextParentage) # measureNumber(parentage)
                 /\ parentage.stopOffset # measureStopOffset(parentage)
             startVerticality ==
                 getVerticalityAt(t, measureStartOffset(parentage))
             newParentage ==
                 [parentage EXCEPT
                     !.beatStrength =
                         IF atStart THEN vBeatStrength(startVerticality) ELSE @,
                     !.startOffset =
                         IF atStart THEN measureStartOffset(parentage) ELSE @,
                     !.stopOffset =
                         IF atStop THEN measureStopOffset(parentage) ELSE @]
         IN [f EXCEPT !.todo = Tail(@),
                      !.script = IF atStart \/ atStop
                                 THEN <<Rm({parentage}),
                                        Ins({parentage}, newParentage)>>
                                 ELSE <<>>]

\* lines 168-174
RECURSIVE ahPullScript(_, _, _)
ahPullScript(timespans, i, verticalityOne) ==
    IF i > Len(timespans) THEN <<>>
    ELSE LET newTimespan ==
                 [timespans[i] EXCEPT
                     !.beatStrength = vBeatStrength(verticalityOne),
                     !.startOffset = verticalityOne.startOffset]
         IN <<Rm({timespans[i]}), Ins({timespans[i]}, newTimespan)>>
            \o ahPullScript(timespans, i + 1, verticalityOne)

\* lines 176-182
RECURSIVE ahStretchScript(_, _, _)
ahStretchScript(timespans, i, verticalityTwo) ==
    IF i > Len(timespans) THEN <<>>
    ELSE LET newTimespan ==
                 [timespans[i] EXCEPT !.stopOffset = verticalityTwo.startOffset]
         IN (IF timespans[i].stopOffset < verticalityTwo.startOffset
             THEN <<Rm({timespans[i]}), Ins({timespans[i]}, newTimespan)>>
             ELSE <<>>)
            \o ahStretchScript(timespans, i + 1, verticalityTwo)

\* lines 157-182
ahWindowScript(verticalityOne, verticalityTwo) ==
    LET pitchSetOne == pitchSet(verticalityOne)
        pitchSetTwo == pitchSet(verticalityTwo)
    IN IF ~isConsonant(verticalityOne) \/ ~isConsonant(verticalityTwo)
       THEN <<>>
       ELSE IF vMeasureNumber(verticalityOne) # vMeasureNumber(verticalityTwo)
       THEN <<>>
       ELSE IF pitchSetOne = pitchSetTwo THEN <<>>
       ELSE IF pitchSetOne \subseteq pitchSetTwo
       THEN ahPullScript(verticalityTwo.startTimespans, 1, verticalityOne)
       ELSE IF pitchSetTwo \subseteq pitchSetOne
       THEN ahStretchScript(verticalityOne.startTimespans, 1, verticalityTwo)
       ELSE <<>>

\* alignHockets: "advance" moves the window of iterateVerticalitiesNwise to
\* the next offset, "window" builds the pair and runs lines 157-182 on it
ahBlock(t, f) ==
    IF f.stage = "advance"
    THEN LET nxt == getStartOffsetAfter(t, f.o)
         IN IF nxt < 0 THEN [f EXCEPT !.label = "done"]
            ELSE [f EXCEPT !.o = nxt, !.stage = "window"]
    ELSE LET second == getStartOffsetAfter(t, f.o)
         IN [f EXCEPT
                !.stage = "advance",
                !.script =
                    IF second < 0 THEN <<>>
                    ELSE ahWindowScript(getVerticalityAt(t, f.o),
                                        getVerticalityAt(t, second))]

\* fillInnerMeasureGaps: lines 353-354, then for one parentage lines 355-365
\* ("stretch") and lines 366-379 ("merge")
fimgBlock(t, f) ==
    IF f.stage = "stretch"
    THEN IF f.todo = <<>> THEN nextVerticality(t, f)
         ELSE LET parentage == Head(f.todo)
                  nextParentage == findNextParentageInSamePart(t, parentage)
                  nextStartOffset == IF nextParentage = None
                                     THEN measureStopOffset(parentage)
                                     ELSE nextParentage.startOffset
                  stretched == [parentage EXCEPT !.stopOffset = nextStartOffset]
              IN [f EXCEPT !.todo = Tail(@),
                           !.parentage = stretched,
                           !.stage = "merge",
                           !.script =
                               IF parentage.stopOffset # nextStartOffset
                               THEN <<Rm({parentage}),
                                      Ins({parentage}, stretched)>>
                               ELSE <<>>]
    ELSE LET parentage == f.parentage
             previousParentage == findPreviousParentageInSamePart(t, parentage)
             newParentage ==
                 [previousParentage EXCEPT !.stopOffset = parentage.stopOffset]
             merges ==
                 /\ previousParentage # None
                 /\ measureNumber(previousParentage) = measureNumber(parentage)
                 /\ previousParentage.pitches = parentage.pitches
         IN [f EXCEPT !.stage = "stretch",
                      !.parentage = None,
                      !.script =
                          IF merges
                          THEN <<Rm({parentage}), Rm({previousParentage}),
                                 Ins({parentage, previousParentage},
                                     newParentage)>>
                          ELSE <<>>]

\* the frame of a pass about to run on the tree t
StartFrame(pass, t, partOrder) ==
    [IdleFrame EXCEPT
        !.pass = pass,
        !.label = "run",
        !.input = t,
        !.partOrder = partOrder,
        !.subtrees = [p \in Parts |-> partSubtree(t, p)],
        !.k = 1,
        !.stage = CASE pass = "fillBassGaps" -> "part"
                    [] pass = "alignHockets" -> "advance"
                    [] pass = "fillInnerMeasureGaps" -> "stretch"
                    [] OTHER -> "none"]

(***************************************************************************)
(* The two projections of the tree.                                        *)
(***************************************************************************)
toPartwiseScore(t) == [p \in Parts |-> partSubtree(t, p)]

toChordifiedScore(t) ==
    LET bounds == {ts.startOffset : ts \in t} \cup {ts.stopOffset : ts \in t}
    IN {[startOffset |-> a,
         stopOffset |-> SetMin({b \in bounds : b > a}),
         pitches |-> {ts.pitches : ts \in {x \in t : x.startOffset <= a
                                                    /\ a < x.stopOffset}}] :
        a \in {x \in bounds : \E b \in bounds : b > x}}

(***************************************************************************)
(* ChordReducer.__call__: the passes, in the order of the source.          *)
(***************************************************************************)
PassOrderBassGapsFirst ==
    <<"fillBassGaps", "removeVerticalDissonances", "removeShortTimespans",
      "fillBassGaps", "fillOuterMeasureGaps", "alignHockets",
      "fillInnerMeasureGaps">>

PassOrder ==
    <<"removeVerticalDissonances", "fillBassGaps", "removeShortTimespans",
      "fillBassGaps", "fillOuterMeasureGaps", "alignHockets",
      "fillInnerMeasureGaps">>

PermSeqs(S) == {f \in [1..Cardinality(S) -> S] : Range(f) = S}

Overlapping(a, b) ==
    /\ a.part = b.part
    /\ a.startOffset < b.stopOffset
    /\ b.startOffset < a.stopOffset

\* every timespan a score can hold: a note of one part inside one measure
MeasureIntervals(m) ==
    {i \in (m.start..m.stop) \X (m.start..m.stop) : i[1] < i[2]}

ScoreTimespans ==
    {[part |-> p, startOffset |-> i[1], stopOffset |-> i[2], pitches |-> q,
      beatStrength |-> beatStrengthAt(i[1])] :
     p \in Parts, q \in Pitches, i \in UNION {MeasureIntervals(m) : m \in Measures}}

\* the trees of at most k timespans, each as its sorted list
RECURSIVE InputSeqs(_)
InputSeqs(k) ==
    IF k = 0 THEN {<<>>}
    ELSE LET smaller == InputSeqs(k - 1)
         IN smaller \cup
            UNION {{Append(T, ts) :
                    ts \in {x \in ScoreTimespans :
                              /\ Len(T) = k - 1
                              /\ T # <<>> => TsLess(T[Len(T)], x)
                              /\ \A i \in 1..Len(T) : ~Overlapping(x, T[i])}} :
                   T \in smaller}

InputTrees(k) == {Range(T) : T \in InputSeqs(k)}

Init ==
    /\ tree \in InputTrees(MaxSpans) \ {{}}
    /\ bassTie \in {"first", "last"}
    /\ pc = 0
    /\ history = <<>>
    /\ partwiseReduction = [p \in Parts |-> <<>>]
    /\ chordifiedReduction = {}
    /\ measureObject = <<>>
    /\ numChords = 0
    /\ weightAlgorithm = "none"
    /\ trimBelow = 0
    /\ tableOrder = <<>>
    /\ result = <<>>
    /\ rpc = "idle"
    /\ frame = IdleFrame

NextPass(name) == pc < Len(PassOrder) /\ PassOrder[pc + 1] = name

Ran(name) ==
    /\ pc' = pc + 1
    /\ history' = Append(history, name)
    /\ UNCHANGED <<bassTie, partwiseReduction, chordifiedReduction, frame>>
    /\ UNCHANGED reduceVars

RemoveVerticalDissonances ==
    /\ NextPass("removeVerticalDissonances")
    /\ tree' = removeVerticalDissonances(tree)
    /\ Ran("removeVerticalDissonances")

FillBassGaps ==
    /\ NextPass("fillBassGaps")
    /\ \E partOrder \in PermSeqs(Parts) :
          tree' = fillBassGaps(tree, partOrder)
    /\ Ran("fillBassGaps")

RemoveShortTimespans ==
    /\ NextPass("removeShortTimespans")
    /\ \E partOrder \in PermSeqs(Parts), pref \in PermSeqs(Pitches) :
          tree' = removeShortTimespans(tree, ShortDuration, partOrder, pref)
    /\ Ran("removeShortTimespans")

FillOuterMeasureGaps ==
    /\ NextPass("fillOuterMeasureGaps")
    /\ tree' = fillOuterMeasureGaps(tree)
    /\ Ran("fillOuterMeasureGaps")

AlignHockets ==
    /\ NextPass("alignHockets")
    /\ tree' = alignHockets(tree)
    /\ Ran("alignHockets")

FillInnerMeasureGaps ==
    /\ NextPass("fillInnerMeasureGaps")
    /\ tree' = fillInnerMeasureGaps(tree)
    /\ Ran("fillInnerMeasureGaps")

\* tree.toPartwiseScore() and tree.toChordifiedScore()
Project ==
    /\ pc = Len(PassOrder)
    /\ pc' = pc + 1
    /\ partwiseReduction' = toPartwiseScore(tree)
    /\ chordifiedReduction' = toChordifiedScore(tree)
    /\ UNCHANGED <<tree, bassTie, history, frame>>
    /\ UNCHANGED reduceVars

Next ==
    \/ RemoveVerticalDissonances
    \/ FillBassGaps
    \/ RemoveShortTimespans
    \/ FillOuterMeasureGaps
    \/ AlignHockets
    \/ FillInnerMeasureGaps
    \/ Project

Spec == Init /\ [][Next]_vars

(***************************************************************************)
(* fillBassGaps called on a tree of its own.                               *)
(***************************************************************************)
InitBass == Init

CallFillBassGaps ==
    /\ pc = 0
    /\ \E partOrder \in PermSeqs(Parts) :
          tree' = fillBassGaps(tree, partOrder)
    /\ Ran("fillBassGaps")

NextBass == CallFillBassGaps

SpecBass == InitBass /\ [][NextBass]_vars

(***************************************************************************)
(* removeShortTimespans called on a tree of its own, with the default      *)
(* duration.                                                               *)
(***************************************************************************)
MaxShortSpans == 4            \* timespans in the tree handed in
MaxSecondSpans == 1           \* of which in the second part

\* the lines of at most k timespans that one part can play, as sorted lists
RECURSIVE PartSeqs(_, _)
PartSeqs(p, k) ==
    IF k = 0 THEN {<<>>}
    ELSE LET smaller == PartSeqs(p, k - 1)
         IN smaller \cup
            UNION {{Append(T, ts) :
                    ts \in {x \in ScoreTimespans :
                              /\ x.part = p
                              /\ Len(T) = k - 1
                              /\ T # <<>> => TsLess(T[Len(T)], x)
                              /\ \A i \in 1..Len(T) : ~Overlapping(x, T[i])}} :
                   T \in smaller}

ShortInputTrees ==
    {Range(a) \cup Range(b) :
        a \in PartSeqs(1, MaxShortSpans), b \in PartSeqs(2, MaxSecondSpans)}

InitShort ==
    /\ tree \in {t \in ShortInputTrees :
                   t # {} /\ Cardinality(t) <= MaxShortSpans}
    /\ bassTie \in {"first", "last"}
    /\ pc = 0
    /\ history = <<>>
    /\ partwiseReduction = [p \in Parts |-> <<>>]
    /\ chordifiedReduction = {}
    /\ measureObject = <<>>
    /\ numChords = 0
    /\ weightAlgorithm = "none"
    /\ trimBelow = 0
    /\ tableOrder = <<>>
    /\ result = <<>>
    /\ rpc = "idle"
    /\ frame = IdleFrame

CallRemoveShortTimespans ==
    /\ pc = 0
    /\ \E partOrder \in PermSeqs(Parts), pref \in PermSeqs(Pitches) :
          tree' = removeShortTimespans(tree, ShortDuration, partOrder, pref)
    /\ Ran("removeShortTimespans")

NextShort == CallRemoveShortTimespans

SpecShort == InitShort /\ [][NextShort]_vars

(***************************************************************************)
(* The inserting passes run statement by statement, each on a tree of its  *)
(* own: one action per block of each pass, one per call of tree.remove and *)
(* one per call of tree.insert.                                            *)
(***************************************************************************)
StepPasses ==
    {"fillBassGaps", "fillOuterMeasureGaps", "alignHockets",
     "fillInnerMeasureGaps"}

InitSteps ==
    /\ tree \in InputTrees(MaxStepSpans) \ {{}}
    /\ bassTie \in {"first", "last"}
    /\ pc = 0
    /\ history = <<>>
    /\ partwiseReduction = [p \in Parts |-> <<>>]
    /\ chordifiedReduction = {}
    /\ measureObject = <<>>
    /\ numChords = 0
    /\ weightAlgorithm = "none"
    /\ trimBelow = 0
    /\ tableOrder = <<>>
    /\ result = <<>>
    /\ rpc = "idle"
    /\ \E pass \in StepPasses :
          \E partOrder \in (IF pass = "fillBassGaps" THEN PermSeqs(Parts)
                            ELSE {<<>>}) :
             frame = StartFrame(pass, tree, partOrder)

AtQuery(pass) ==
    frame.pass = pass /\ frame.label = "run" /\ frame.script = <<>>

Block(f) ==
    /\ frame' = f
    /\ UNCHANGED <<tree, bassTie, pc, history, partwiseReduction,
                   chordifiedReduction>>
    /\ UNCHANGED reduceVars

FillBassGapsBlock ==
    /\ AtQuery("fillBassGaps")
    /\ Block(fbgBlock(tree, frame))

FillOuterMeasureGapsBlock ==
    /\ AtQuery("fillOuterMeasureGaps")
    /\ Block(fomgBlock(tree, frame))

AlignHocketsBlock ==
    /\ AtQuery("alignHockets")
    /\ Block(ahBlock(tree, frame))

FillInnerMeasureGapsBlock ==
    /\ AtQuery("fillInnerMeasureGaps")
    /\ Block(fimgBlock(tree, frame))

\* tree.remove(...): the next call of the script
TreeRemove ==
    /\ frame.script # <<>>
    /\ Head(frame.script).op = "remove"
    /\ tree' = removeAll(tree, Head(frame.script).old)
    /\ frame' = [frame EXCEPT !.script = Tail(@),
                              !.open = @ \cup Head(frame.script).old]
    /\ UNCHANGED <<bassTie, pc, history, partwiseReduction, chordifiedReduction>>
    /\ UNCHANGED reduceVars

\* tree.insert(...): the next call of the script
TreeInsert ==
    /\ frame.script # <<>>
    /\ Head(frame.script).op = "insert"
    /\ tree' = insert(tree, Head(frame.script).new)
    /\ frame' = [frame EXCEPT !.script = Tail(@),
                              !.open = @ \ Head(frame.script).old]
    /\ UNCHANGED <<bassTie, pc, history, partwiseReduction, chordifiedReduction>>
    /\ UNCHANGED reduceVars

NextSteps ==
    \/ FillBassGapsBlock
    \/ FillOuterMeasureGapsBlock
    \/ AlignHocketsBlock
    \/ FillInnerMeasureGapsBlock
    \/ TreeRemove
    \/ TreeInsert

SpecSteps == InitSteps /\ [][NextSteps]_vars

(***************************************************************************)
(* reduceMeasureToNChords.                                                 *)
(*                                                                         *)
(* An event of a measure is a Chord, a Note or a Rest:                     *)
(*   [kind, pcs, consonant, offset, quarterLength, beatStrength]           *)
(* pcs is the set of its pitch classes, offset and quarterLength are in    *)
(* ticks, beatStrength in sixteenths.  Weights are whole numbers in units  *)
(* of 1/640: ticks (1/4) times sixteenths (1/16) times tenths (1/10);      *)
(* trimBelow is in percent.                                                *)
(***************************************************************************)
MaxEvents == 3                \* events in the measure handed in
MaxN == 3                     \* numChords ranges over 1..MaxN
BarTicks == 16                \* a 4/4 measure holds sixteen ticks

Trims == {0, 25, 30, 100}
WeightAlgorithms ==
    {"quarterLengthOnly", "quarterLengthBeatStrength",
     "quarterLengthBeatStrengthMeasurePosition", "qlbsmpConsonance"}

\* the beat strength of an offset of a 4/4 measure, in sixteenths
beatStrength44(o) ==
    IF o = 0 THEN 16
    ELSE IF o = 8 THEN 8
    ELSE IF o % 4 = 0 THEN 4
    ELSE IF o % 2 = 0 THEN 2
    ELSE 1

\* the sum of the quarter lengths of a stream's events
RECURSIVE totalQuarterLength(_)
totalQuarterLength(m) ==
    IF m = <<>> THEN 0
    ELSE Head(m).quarterLength + totalQuarterLength(Tail(m))

\* measureObject.notes: the pitched events; rests are left out
notes(m) == SelectSeq(m, LAMBDA c : c.kind # "rest")

\* measureObject.duration.quarterLength: the stream's highest end time
streamDuration(m) ==
    IF m = <<>> THEN 0
    ELSE SetMax({c.offset + c.quarterLength : c \in Range(m)})

quarterLengthOnly(c) == c.quarterLength * 16 * 10

quarterLengthBeatStrength(c) == c.quarterLength * c.beatStrength * 10

quarterLengthBeatStrengthMeasurePosition(c, positionInMeasure, numberOfElementsInMeasure) ==
    IF positionInMeasure = numberOfElementsInMeasure - 1
    THEN c.quarterLength * 16 * 10
    ELSE quarterLengthBeatStrength(c)

qlbsmpConsonanceNoPosition(c, positionInMeasure, numberOfElementsInMeasure) ==
    LET consonanceScore == IF c.consonant THEN 10 ELSE 1
        weight == quarterLengthBeatStrength(c)
    IN (weight * consonanceScore) \div 10

qlbsmpConsonance(c, positionInMeasure, numberOfElementsInMeasure) ==
    LET consonanceScore == IF c.consonant THEN 10 ELSE 1
        weight ==
            IF positionInMeasure = numberOfElementsInMeasure - 1
            THEN c.quarterLength * 16 * 10
            ELSE quarterLengthBeatStrengthMeasurePosition(
                     c, positionInMeasure, numberOfElementsInMeasure)
    IN (weight * consonanceScore) \div 10

applyWeightAlgorithm(alg, c, positionInMeasure, numberOfElementsInMeasure) ==
    IF alg = "quarterLengthOnly" THEN quarterLengthOnly(c)
    ELSE IF alg = "quarterLengthBeatStrength" THEN quarterLengthBeatStrength(c)
    ELSE IF alg = "quarterLengthBeatStrengthMeasurePosition"
    THEN quarterLengthBeatStrengthMeasurePosition(
             c, positionInMeasure, numberOfElementsInMeasure)
    ELSE qlbsmpConsonance(c, positionInMeasure, numberOfElementsInMeasure)

\* p = tuple(c.pitch.pitchClass) raises for a Note: an int is not iterable
pitchClassKeyRaises(c) == c.kind = "note"
pitchClassKey(c) == c.pcs

RECURSIVE cmcwAccumulate(_, _, _, _)
cmcwAccumulate(m, alg, p, i) ==
    IF i > Len(m) THEN 0
    ELSE (IF pitchClassKey(m[i]) = p
          THEN applyWeightAlgorithm(alg, m[i], i - 1, Len(m)) ELSE 0)
         + cmcwAccumulate(m, alg, p, i + 1)

\* presentPCs, unless the call raises
computeMeasureChordWeightsRaises(m) ==
    \E c \in Range(m) : pitchClassKeyRaises(c)

computeMeasureChordWeights(m, alg) ==
    [p \in {pitchClassKey(c) : c \in Range(m)} |->
        cmcwAccumulate(m, alg, p, 1)]

RECURSIVE sortedChordWeightsLastTie(_, _)
sortedChordWeightsLastTie(chordWeights, order) ==
    IF order = <<>> THEN <<>>
    ELSE LET best == SetMax({chordWeights[p] : p \in Range(order)})
             k == SetMax({i \in 1..Len(order) : chordWeights[order[i]] = best})
         IN <<order[k]>> \o
            sortedChordWeightsLastTie(chordWeights,
                SubSeq(order, 1, k - 1) \o SubSeq(order, k + 1, Len(order)))

\* sorted(chordWeights, key=chordWeights.get, reverse=True): a stable sort of
\* the dict's keys, taken in the dict's iteration order
RECURSIVE sortedChordWeights(_, _)
sortedChordWeights(chordWeights, order) ==
    IF order = <<>> THEN <<>>
    ELSE LET best == SetMax({chordWeights[p] : p \in Range(order)})
             k == SetMin({i \in 1..Len(order) : chordWeights[order[i]] = best})
         IN <<order[k]>> \o
            sortedChordWeights(chordWeights,
                SubSeq(order, 1, k - 1) \o SubSeq(order, k + 1, Len(order)))

RECURSIVE trimmedMaxChordsStrict(_, _, _, _)
trimmedMaxChordsStrict(chordWeights, maxNChords, trim, i) ==
    IF i > Len(maxNChords) THEN <<>>
    ELSE IF chordWeights[maxNChords[i]] * 100
            > chordWeights[maxNChords[1]] * trim
    THEN <<maxNChords[i]>> \o
         trimmedMaxChordsStrict(chordWeights, maxNChords, trim, i + 1)
    ELSE <<>>

RECURSIVE trimmedMaxChordsBelow(_, _, _, _)
trimmedMaxChordsBelow(chordWeights, maxNChords, trim, i) ==
    IF i > Len(maxNChords) THEN <<>>
    ELSE IF chordWeights[maxNChords[i]] * 100
            <= chordWeights[maxNChords[1]] * trim
    THEN <<maxNChords[i]>> \o
         trimmedMaxChordsBelow(chordWeights, maxNChords, trim, i + 1)
    ELSE <<>>

\* the loop that ends at the first weight below maxChordWeight * trimBelow
RECURSIVE trimmedMaxChords(_, _, _, _)
trimmedMaxChords(chordWeights, maxNChords, trim, i) ==
    IF i > Len(maxNChords) THEN <<>>
    ELSE IF chordWeights[maxNChords[i]] * 100
            >= chordWeights[maxNChords[1]] * trim
    THEN <<maxNChords[i]>> \o
         trimmedMaxChords(chordWeights, maxNChords, trim, i + 1)
    ELSE <<>>

NoPCs == {0 - 1}

\* the greedy sweep; s = [kept, pcs, newLength], the chord last kept being
\* the last of s.kept (currentGreedyChord) when s.kept is not empty
greedyStep(s, c, trimmed) ==
    LET p == pitchClassKey(c)
        n == Len(s.kept)
    IN IF p \in Range(trimmed) /\ p # s.pcs
       THEN IF n = 0
            THEN [kept |-> <<[c EXCEPT !.offset = 0]>>,
                  pcs |-> p,
                  newLength |-> (IF c.offset # 0 THEN c.offset ELSE s.newLength)
                                + c.quarterLength]
            ELSE [kept |-> Append([s.kept EXCEPT ![n].quarterLength = s.newLength],
                                  c),
                  pcs |-> p,
                  newLength |-> c.quarterLength]
       ELSE [s EXCEPT !.newLength = @ + c.quarterLength]

RECURSIVE greedySweep(_, _, _, _)
greedySweep(s, m, trimmed, i) ==
    IF i > Len(m)
    THEN IF s.kept = <<>> THEN s.kept
         ELSE [s.kept EXCEPT ![Len(s.kept)].quarterLength = s.newLength]
    ELSE greedySweep(greedyStep(s, m[i], trimmed), m, trimmed, i + 1)

\* round(cOffsetSyncop, 3) in [0.250, 0.125, 0.333, 0.063, 0.062]: on the
\* tick grid only a quarter of a beat, one tick, is such an offset
isSyncopated(cOffsetSyncop) == cOffsetSyncop = 1

\* even chord lengths: for i in range(1, len(measureObject))
RECURSIVE evenChordLengths(_, _)
evenChordLengths(m, i) ==
    IF i > Len(m) THEN m
    ELSE LET cOffsetCurrent == m[i].offset
             cOffsetSyncop == cOffsetCurrent % 4
         IN IF isSyncopated(cOffsetSyncop)
            THEN evenChordLengths(
                     [m EXCEPT
                         ![i - 1].quarterLength = @ - cOffsetSyncop,
                         ![i].offset = cOffsetCurrent - cOffsetSyncop,
                         ![i].quarterLength = @ + cOffsetSyncop],
                     i + 1)
            ELSE evenChordLengths(m, i + 1)

Rest(quarterLength) ==
    [kind |-> "rest", pcs |-> {}, consonant |-> TRUE, offset |-> 0,
     quarterLength |-> quarterLength, beatStrength |-> 16]

\* the whole call; order is the iteration order of the chordWeights dict
reduceMeasureToNChords(m, n, alg, trim, order) ==
    LET pitched == notes(m)
        chordWeights == computeMeasureChordWeights(pitched, alg)
        maxNChords ==
            SubSeq(sortedChordWeights(chordWeights, order), 1,
                   IF n > Len(order) THEN Len(order) ELSE n)
        trimmed == trimmedMaxChords(chordWeights, maxNChords, trim, 1)
        swept == greedySweep([kept |-> <<>>, pcs |-> NoPCs, newLength |-> 0],
                             pitched, trimmed, 1)
    IN IF computeMeasureChordWeightsRaises(pitched)
       THEN [raised |-> TRUE, measure |-> <<>>, maxNChords |-> <<>>,
             trimmedMaxChords |-> <<>>]
       ELSE IF Len(maxNChords) = 0
       THEN [raised |-> FALSE,
             measure |-> <<Rest(streamDuration(pitched))>>,
             maxNChords |-> <<>>, trimmedMaxChords |-> <<>>]
       ELSE [raised |-> FALSE, measure |-> evenChordLengths(swept, 2),
             maxNChords |-> maxNChords, trimmedMaxChords |-> trimmed]

(***************************************************************************)
(* The measures handed to reduceMeasureToNChords: up to MaxEvents events   *)
(* laid end to end from offset 0 inside one 4/4 measure.                   *)
(***************************************************************************)
ChordA == [kind |-> "chord", pcs |-> {0, 4, 7}, consonant |-> TRUE]
ChordB == [kind |-> "chord", pcs |-> {0, 4, 5, 11}, consonant |-> FALSE]
ChordC == [kind |-> "chord", pcs |-> {2, 7, 11}, consonant |-> TRUE]
NoteC == [kind |-> "note", pcs |-> {0}, consonant |-> TRUE]
RestR == [kind |-> "rest", pcs |-> {}, consonant |-> TRUE]

EventShapes ==
    ({ChordA, ChordB, ChordC} \X {1, 4, 8}) \cup ({RestR} \X {1, 4})
    \cup ({NoteC} \X {4})

\* a list of shapes laid end to end from offset `at`
RECURSIVE layOut(_, _)
layOut(shapes, at) ==
    IF shapes = <<>> THEN <<>>
    ELSE LET e == Head(shapes)
         IN <<[kind |-> e[1].kind, pcs |-> e[1].pcs,
               consonant |-> e[1].consonant, offset |-> at,
               quarterLength |-> e[2], beatStrength |-> beatStrength44(at)]>>
            \o layOut(Tail(shapes), at + e[2])

RECURSIVE ShapeLists(_)
ShapeLists(k) ==
    IF k = 0 THEN {<<>>}
    ELSE LET shorter == ShapeLists(k - 1)
         IN shorter \cup
            {Append(l, e) : l \in {x \in shorter : Len(x) = k - 1},
                            e \in EventShapes}

InputMeasures ==
    {m \in {layOut(l, 0) : l \in ShapeLists(MaxEvents) \ {<<>>}} :
        streamDuration(m) <= BarTicks}

InitReduce ==
    /\ tree = {}
    /\ bassTie = "first"
    /\ pc = 0
    /\ history = <<>>
    /\ partwiseReduction = [p \in Parts |-> <<>>]
    /\ chordifiedReduction = {}
    /\ measureObject \in InputMeasures
    /\ numChords \in 1..MaxN
    /\ weightAlgorithm \in WeightAlgorithms
    /\ trimBelow \in Trims
    /\ tableOrder = <<>>
    /\ result = [raised |-> FALSE, measure |-> <<>>, maxNChords |-> <<>>,
                 trimmedMaxChords |-> <<>>]
    /\ rpc = "start"
    /\ frame = IdleFrame

ReduceMeasureToNChords ==
    /\ rpc = "start"
    /\ \E order \in PermSeqs({pitchClassKey(c) : c \in Range(notes(measureObject))}) :
          /\ tableOrder' = order
          /\ result' = reduceMeasureToNChords(measureObject, numChords,
                                              weightAlgorithm, trimBelow, order)
    /\ rpc' = "done"
    /\ UNCHANGED <<measureObject, numChords, weightAlgorithm, trimBelow>>
    /\ UNCHANGED pipelineVars

NextReduce == ReduceMeasureToNChords

SpecReduce == InitReduce /\ [][NextReduce]_vars

(***************************************************************************)
(* Properties of the pipeline (under Spec).                                *)
(***************************************************************************)
\* per part, no two timespans overlap
NonOverlapping(t) ==
    \A a \in t : \A b \in t : a # b => ~Overlapping(a, b)

\* C1: after each pass, the timespans of every part are pairwise
\* non-overlapping.
IntervalIntegrity == NonOverlapping(tree)

\* the timespans of part p tile the measure m: each lies inside the measure
\* and every offset of the measure is covered by exactly one of them
Tiles(t, p, m) ==
    LET mine == {ts \in t : ts.part = p /\ ts.startOffset < m.stop
                                       /\ m.start < ts.stopOffset}
    IN /\ \A ts \in mine : m.start <= ts.startOffset /\ ts.stopOffset <= m.stop
       /\ \A o \in m.start..(m.stop - 1) :
             Cardinality({ts \in mine : ts.startOffset <= o
                                        /\ o < ts.stopOffset}) = 1

\* C2: once fillOuterMeasureGaps and fillInnerMeasureGaps have run, the
\* timespans of every part tile every measure in which the part sounds.
CoverageAfterGapFilling ==
    pc >= Len(PassOrder) =>
        \A p \in Parts : \A m \in Measures :
            (\E ts \in tree : ts.part = p /\ measureNumber(ts) = m.start)
                => Tiles(tree, p, m)

\* C3 as claimed: one invocation has run six passes, each once, in the order
\* removeVerticalDissonances, fillBassGaps, removeShortTimespans,
\* fillOuterMeasureGaps, fillInnerMeasureGaps, alignHockets.
ClaimedPassOrdering ==
    pc > Len(PassOrder) =>
        history = <<"removeVerticalDissonances", "fillBassGaps",
                    "removeShortTimespans", "fillOuterMeasureGaps",
                    "fillInnerMeasureGaps", "alignHockets">>

\* C3 as amended: the passes run one after the other in the order
\* removeVerticalDissonances, fillBassGaps, removeShortTimespans,
\* fillBassGaps, fillOuterMeasureGaps, alignHockets, fillInnerMeasureGaps
\* (fillBassGaps twice, the others once), and the two projections are taken
\* from the tree the last pass leaves.
SourcePassOrdering ==
    LET order == <<"removeVerticalDissonances", "fillBassGaps",
                   "removeShortTimespans", "fillBassGaps",
                   "fillOuterMeasureGaps", "alignHockets",
                   "fillInnerMeasureGaps">>
    IN /\ Len(history) <= Len(order)
       /\ history = SubSeq(order, 1, Len(history))
       /\ Len(history) < Len(order) =>
              /\ partwiseReduction = [p \in Parts |-> <<>>]
              /\ chordifiedReduction = {}
       /\ pc > Len(history) =>
              /\ history = order
              /\ partwiseReduction = toPartwiseScore(tree)
              /\ chordifiedReduction = toChordifiedScore(tree)

\* the invocation is over: seven passes ran and the projections are taken
SourcePassOrderingWitness ==
    /\ Len(history) = 7
    /\ history[4] = "fillBassGaps"
    /\ history[7] = "fillInnerMeasureGaps"
    /\ chordifiedReduction # {}
    /\ chordifiedReduction = toChordifiedScore(tree)

\* C10: no pass inserts a timespan with startOffset >= stopOffset, and every
\* timespan of the tree has positive length after every pass.
ValidIntervals ==
    /\ Misuse \notin tree
    /\ \A ts \in tree : ts.startOffset < ts.stopOffset

\* all passes ran and the tree holds a replacement, a timespan that no
\* score has (it crosses a barline or keeps the beat strength of another
\* offset)
ValidIntervalsWitness ==
    /\ Len(history) = Len(PassOrder)
    /\ \E ts \in tree : ts \notin ScoreTimespans /\ ts.startOffset < ts.stopOffset

\* the pitches that part p plays somewhere in the tree t
partPitches(t, p) == {ts.pitches : ts \in {x \in t : x.part = p}}

\* C12: fillBassGaps keeps, in every part, every pitch set the part had
\* before the pass (under SpecBass, and for both calls of the pipeline).
FillBassGapsPreservesPitches ==
    [][(history' = Append(history, "fillBassGaps")) =>
          \A p \in Parts : partPitches(tree, p) \subseteq partPitches(tree', p)]_vars

(***************************************************************************)
(* Properties of the passes called on their own.                           *)
(***************************************************************************)
\* C11: a call of removeShortTimespans with threshold ShortDuration leaves
\* every timespan of duration >= ShortDuration in the tree, unchanged; only
\* timespans shorter than ShortDuration are removed.
ThresholdFrame ==
    [][(history' = Append(history, "removeShortTimespans")) =>
          \A ts \in tree : tsDuration(ts) >= ShortDuration => ts \in tree']_vars

(***************************************************************************)
(* Properties of the passes run statement by statement.                    *)
(***************************************************************************)
\* the tree a pass leaves when it is run in one piece
wholePass(f) ==
    CASE f.pass = "fillBassGaps" -> fillBassGaps(f.input, f.partOrder)
      [] f.pass = "fillOuterMeasureGaps" -> fillOuterMeasureGaps(f.input)
      [] f.pass = "alignHockets" -> alignHockets(f.input)
      [] f.pass = "fillInnerMeasureGaps" -> fillInnerMeasureGaps(f.input)

\* run statement by statement, a pass ends with the tree it leaves when it
\* is run in one piece
StepsAgree == frame.label = "done" => tree = wholePass(frame)

\* C13: when a pass is about to insert a replacement, every timespan the
\* replacement was made from has been removed from the tree and is absent
\* from it; and whenever a pass queries the tree (an iteration step, a
\* neighbour or verticality lookup, a key evaluation of groupby), no removed
\* timespan is still waiting for its replacement.
RemoveBeforeInsert ==
    /\ (frame.script # <<>> /\ Head(frame.script).op = "insert") =>
          /\ Head(frame.script).old \subseteq frame.open
          /\ Head(frame.script).old \cap tree = {}
    /\ (frame.label = "run" /\ frame.script = <<>>) => frame.open = {}

\* a pass has removed two timespans and is about to insert the one that
\* replaces both
RemoveBeforeInsertWitness ==
    /\ frame.script # <<>>
    /\ Head(frame.script).op = "insert"
    /\ Cardinality(Head(frame.script).old) = 2
    /\ Head(frame.script).old \subseteq frame.open

(***************************************************************************)
(* Properties of reduceMeasureToNChords (under SpecReduce).                *)
(***************************************************************************)
Returned == rpc = "done" /\ ~result.raised

\* the distinct pitch-class-sets among the events of a returned measure
keptPCs(m) == {e.pcs : e \in {x \in Range(m) : x.kind # "rest"}}

inputWeights == computeMeasureChordWeights(notes(measureObject), weightAlgorithm)

DurationConservation ==
    (Returned /\ notes(measureObject) # <<>>) =>
        totalQuarterLength(result.measure) = totalQuarterLength(measureObject)

\* C6: a measure without a pitched event comes back as one rest at offset 0
\* as long as the measure handed in.
DegenerateMeasure ==
    (rpc = "done" /\ notes(measureObject) = <<>>) =>
        /\ ~result.raised
        /\ result.measure = <<Rest(totalQuarterLength(measureObject))>>

\* testMeasureStream1: chord A for two beats, chord B and chord A for one each
ReferenceMeasure == layOut(<<<<ChordA, 8>>, <<ChordB, 4>>, <<ChordA, 4>>>>, 0)

ReferenceCall ==
    /\ rpc = "done"
    /\ measureObject = ReferenceMeasure
    /\ numChords = 3
    /\ weightAlgorithm = "qlbsmpConsonance"

\* C7: on the reference measure, with numChords 3 and the consonance
\* weighting, {0,4,7} weighs 3.0 (1920/640), {0,4,5,11} weighs less than
\* trimBelow times 3.0 for trimBelow 0.25 and 0.3, and the call returns one
\* event: chord A at offset 0, four beats (16 ticks) long.
ReferenceScenario ==
    (ReferenceCall /\ trimBelow \in {25, 30}) =>
        /\ inputWeights[{0, 4, 7}] = 1920
        /\ inputWeights[{0, 4, 5, 11}] * 100 < trimBelow * 1920
        /\ ~result.raised
        /\ result.measure =
               <<[kind |-> "chord", pcs |-> {0, 4, 7}, consonant |-> TRUE,
                  offset |-> 0, quarterLength |-> 16, beatStrength |-> 16]>>

ReferenceScenarioWitness ==
    /\ ReferenceCall
    /\ trimBelow = 25
    /\ Len(result.measure) = 1

\* C8: with the measure, numChords, the weighting and the table order fixed,
\* a larger trimBelow never keeps more distinct pitch-class-sets.
TrimMonotonicity ==
    Returned =>
        \A t \in Trims :
            t >= trimBelow =>
                Cardinality(keptPCs(
                    reduceMeasureToNChords(measureObject, numChords,
                        weightAlgorithm, t, tableOrder).measure))
                <= Cardinality(keptPCs(result.measure))

\* a larger trimBelow keeps strictly fewer pitch-class-sets
TrimMonotonicityWitness ==
    /\ Returned
    /\ trimBelow = 25
    /\ Cardinality(keptPCs(result.measure)) >= 2
    /\ Cardinality(keptPCs(
           reduceMeasureToNChords(measureObject, numChords, weightAlgorithm,
                                  100, tableOrder).measure)) = 1

\* tuple(set(pitch classes)): a small set hands out its members by hash slot
RECURSIVE pcTuple(_)
pcTuple(S) ==
    IF S = {} THEN <<>>
    ELSE LET x == CHOOSE y \in S :
                     \A z \in S \ {y} :
                         y % 8 < z % 8 \/ (y % 8 = z % 8 /\ y < z)
         IN <<x>> \o pcTuple(S \ {x})

\* the order of Python tuples
RECURSIVE tupleLess(_, _)
tupleLess(a, b) ==
    IF b = <<>> THEN FALSE
    ELSE IF a = <<>> THEN TRUE
    ELSE IF Head(a) # Head(b) THEN Head(a) < Head(b)
    ELSE tupleLess(Tail(a), Tail(b))

positionIn(order, p) == CHOOSE i \in 1..Len(order) : order[i] = p

\* C9 as claimed: the chords selected are the first numChords of the
\* pitch-class-sets ranked by weight, equal weights in natural sort order.
NaturalOrderTieBreak ==
    Returned =>
        \A p \in Range(result.maxNChords) :
            \A q \in DOMAIN inputWeights \ Range(result.maxNChords) :
                \/ inputWeights[p] > inputWeights[q]
                \/ /\ inputWeights[p] = inputWeights[q]
                   /\ tupleLess(pcTuple(p), pcTuple(q))

\* C9 as amended: the chords selected are the first numChords of the
\* pitch-class-sets ranked by weight, equal weights in the iteration order
\* of the weight table.
TableOrderTieBreak ==
    Returned =>
        /\ Len(result.maxNChords) =
               IF numChords > Cardinality(DOMAIN inputWeights)
               THEN Cardinality(DOMAIN inputWeights) ELSE numChords
        /\ \A p \in Range(result.maxNChords) :
               \A q \in DOMAIN inputWeights \ Range(result.maxNChords) :
                   \/ inputWeights[p] > inputWeights[q]
                   \/ /\ inputWeights[p] = inputWeights[q]
                      /\ positionIn(tableOrder, p) < positionIn(tableOrder, q)

\* a tie that the table order settles against the natural sort order
TableOrderTieBreakWitness ==
    /\ Returned
    /\ \E p \in Range(result.maxNChords) :
           \E q \in DOMAIN inputWeights \ Range(result.maxNChords) :
               /\ inputWeights[p] = inputWeights[q]
               /\ tupleLess(pcTuple(q), pcTuple(p))
               /\ p \in keptPCs(result.measure)

\* C14: when the measure handed in has a pitched event, every event of the
\* returned measure has a quarter length above zero and no two returned
\* events start at the same offset.
PositiveDurations ==
    (Returned /\ notes(measureObject) # <<>>) =>
        /\ \A i \in DOMAIN result.measure : result.measure[i].quarterLength > 0
        /\ \A i \in DOMAIN result.measure : \A j \in DOMAIN result.measure :
               i # j => result.measure[i].offset # result.measure[j].offset

====
